---- MODULE Spec2Model ----
(***************************************************************************)
(* Screening session orchestration of the resume screener backend:         *)
(*   core/tasks.py            run_screening_session_task,                  *)
(*                            _rank_session_candidates                     *)
(*   core/agents/orchestrator.py  ScreeningOrchestrator.screen_candidate   *)
(*   screening/models.py      ScreeningSession, ScreeningResult            *)
(*   screening/views.py       start_screening_view,                        *)
(*                            ScreeningSessionDetailView.destroy           *)
(*   screening/serializers.py StartScreeningSerializer                     *)
(*   core/agents/scoring_agents.py  SkillMatcherAgent,                     *)
(*                            ExperienceScorerAgent, EducationScorerAgent  *)
(*   jobs/serializers.py      JobDescriptionWriteSerializer.validate       *)
(*                                                                         *)
(* The database rows are the shared state; every database read or write    *)
(* of the task is one step, so executions of the task that run at the same *)
(* time interleave between their queries.                                  *)
(***************************************************************************)
EXTENDS Integers, Sequences, FiniteSets, TLC

\* ------------------------------------------------------------------ bounds
\* Largest number of ScreeningResult rows of the session.
MaxUnits == 3
\* Largest number of executions of run_screening_session_task for the session
\* (the task is declared acks_late, so its message can be delivered again).
MaxRuns == 2
\* Largest number of rows of a session whose executions overlap.
MaxOverlapUnits == 2
\* Largest number of rows of a session in the check of termination.
MaxLiveUnits == 2

\* Largest number of Resume rows of the company.
MaxResumes == 2
\* Largest length of resume_ids in a request of start_screening_view.
MaxResumeIds == 2

\* Largest length of a job skill list taken with every content.
MaxJobSkills == 2
\* Number of matched must_have skills of the long job skill list.
LongJobSkills == 20

\* rank = models.PositiveIntegerField(null=True): the null rank.
Null == 0
\* enumerate(results, start=1)
RankStart == 1

\* Values round(overall_score, 2) takes in the model.
Scores == {75, 90}
\* Values expl_result.get('tokens_used', 0) takes in the model.
Tokens == {1, 2}
\* str(exc) of the exceptions screen_candidate catches, here those of the
\* similarity lookup and of the explanation call.
Errors == {"similarity", "explanation"}

Runs == 1..MaxRuns

VARIABLES
    session,           \* the ScreeningSession row
    results,           \* the ScreeningResult rows of the session, by creation order
    extracted_skills,  \* job.extracted_skills is non-empty
    task,              \* per execution of run_screening_session_task: its locals
    call,              \* the scoring call of screen_candidate under study:
                       \* the function, its arguments, and what it returned
    screen,            \* the screen_candidate call under study, step by step:
                       \* its position, the row, the object it loaded, the
                       \* steps it invoked, what was raised and returned
    destroy,           \* the DELETE request on the session: its position and
                       \* the status of the session object it loaded
    start              \* the POST request of start_screening_view: the Resume
                       \* rows, resume_ids, the response, the resume of every
                       \* result row created

vars == <<session, results, extracted_skills, task, call, screen, destroy, start>>

Units == DOMAIN results

\* ScreeningStatus
PENDING == "pending"
PROCESSING == "processing"
COMPLETED == "completed"
FAILED == "failed"

\* ------------------------------------------------------------------ rows
\* ScreeningResult(session=session, resume=r, job=job): the field defaults.
NewResult ==
    [status |-> PENDING, overall_score |-> 0, rank |-> Null,
     error_message |-> "", tokens_used |-> 0]

\* ScreeningSession.objects.create(... total_resumes=resumes.count(),
\* status=PENDING): the counters default to 0.
NewSession(n) ==
    [status |-> PENDING, total_resumes |-> n, processed_count |-> 0,
     failed_count |-> 0, total_tokens_used |-> 0]

\* No POST request of start_screening_view is under study.
NoStart == [pc |-> "none"]

\* No DELETE request on the session is under study.
NoDestroy == [pc |-> "none", status |-> ""]

\* No screen_candidate call is under study.
NoScreen == [pc |-> "none"]

\* No scoring call is under study.
NoCall == [fn |-> "none", returned |-> FALSE]

\* The locals of an execution that has not been delivered yet.
NewTask ==
    [pc |-> "idle", pending |-> {}, result |-> 0, success |-> FALSE,
     sc_rank |-> Null, sc_error |-> "",
     processed_count |-> 0, failed_count |-> 0, total_tokens |-> 0,
     ranking |-> <<>>, rank |-> RankStart]

\* start_screening_view: the session with its pending rows, the task queued.
\* resume_ids has min_length=1 and every id names a distinct resume.
InitUpTo(m) ==
    /\ \E n \in 1..m :
          /\ session = NewSession(n)
          /\ results = [u \in 1..n |-> NewResult]
    /\ extracted_skills \in BOOLEAN
    /\ task = [r \in Runs |-> NewTask]
    /\ call = NoCall
    /\ screen = NoScreen
    /\ destroy = NoDestroy
    /\ start = NoStart

Init == InitUpTo(MaxUnits)

InitOverlap == InitUpTo(MaxOverlapUnits)

InitLive == InitUpTo(MaxLiveUnits)

\* ------------------------------------------------------------------ helpers
\* A filter on "not completed" in place of status=PENDING.
NotCompleted == {u \in DOMAIN results : results[u].status # "completed"}

Pending == {u \in Units : results[u].status = PENDING}
Completed == {u \in Units : results[u].status = COMPLETED}
Failed == {u \in Units : results[u].status = FAILED}

\* order_by('overall_score'): the scores ascending.
OrderByScoreAsc(S) ==
    {q \in [1..Cardinality(S) -> S] :
        /\ \A i, j \in 1..Cardinality(S) : i # j => q[i] # q[j]
        /\ \A i, j \in 1..Cardinality(S) :
              i < j => results[q[i]].overall_score <= results[q[j]].overall_score}

\* The rows .filter(status=COMPLETED).order_by('-overall_score') can return:
\* every order of the completed rows with the scores descending.  The query
\* names no second sort key, so rows of equal score come in any order.
OrderByScoreDesc(S) ==
    {q \in [1..Cardinality(S) -> S] :
        /\ \A i, j \in 1..Cardinality(S) : i # j => q[i] # q[j]
        /\ \A i, j \in 1..Cardinality(S) :
              i < j => results[q[i]].overall_score >= results[q[j]].overall_score}

\* An except branch that also puts the score and the rank back to their
\* defaults.
FailedRowReset(row, e) ==
    [row EXCEPT !.status = FAILED, !.error_message = e,
                !.overall_score = 0, !.rank = Null]

\* An except branch that saves nothing: the row stays as it was.
FailedRowUnsaved(row, e) == row

\* An except branch that saves the status and leaves error_message as it was.
FailedRowStatusOnly(row, e) == [row EXCEPT !.status = FAILED]

\* The except branch of screen_candidate: status and error_message are saved.
FailedRow(row, e) == [row EXCEPT !.status = FAILED, !.error_message = e]

\* result.save() of screen_candidate: every field of the object loaded at the
\* start of the call is written, the rank and error_message it was loaded with
\* included.
CompletedRow(loadedRank, loadedError, score, tokens) ==
    [status |-> COMPLETED, overall_score |-> score, rank |-> loadedRank,
     error_message |-> loadedError, tokens_used |-> tokens]

\* The counters with the failure never counted.
CountsAfterNoFailure(p, f, success) ==
    [processed_count |-> p + 1, failed_count |-> f]

\* The counters with only a successful unit counted as processed.
CountsAfterSuccessOnly(p, f, success) ==
    [processed_count |-> IF success THEN p + 1 ELSE p,
     failed_count |-> IF success THEN f ELSE f + 1]

\* processed_count += 1; if not success: failed_count += 1
CountsAfter(p, f, success) ==
    [processed_count |-> p + 1,
     failed_count |-> IF success THEN f ELSE f + 1]

\* ------------------------------------------------------------------ run_screening_session_task
\* session = ScreeningSession.objects.get(id=session_id)
GetSession(r) ==
    /\ task[r].pc = "idle"
    /\ task' = [task EXCEPT ![r].pc = "loaded"]
    /\ UNCHANGED <<session, results, extracted_skills, call, screen, destroy, start>>

\* session.status = PROCESSING; session.save(update_fields=['status', 'started_at'])
MarkProcessing(r) ==
    /\ task[r].pc = "loaded"
    /\ session' = [session EXCEPT !.status = PROCESSING]
    /\ task' = [task EXCEPT ![r].pc = "marked"]
    /\ UNCHANGED <<results, extracted_skills, call, screen, destroy, start>>

\* if not job.extracted_skills: orchestrator.analyze_job(...)
\* analyze_job returns False on a failure and the task goes on either way.
EnsureAnalyzed(r) ==
    /\ task[r].pc = "marked"
    /\ \/ extracted_skills' = extracted_skills
       \/ ~extracted_skills /\ extracted_skills' = TRUE
    /\ task' = [task EXCEPT ![r].pc = "analyzed"]
    /\ UNCHANGED <<session, results, call, screen, destroy, start>>

\* pending = ScreeningResult.objects.filter(session=session, status=PENDING),
\* evaluated when the for loop starts; total_tokens = 0
FetchPending(r) ==
    /\ task[r].pc = "analyzed"
    /\ task' = [task EXCEPT ![r].pc = "loop",
                            ![r].pending = Pending,
                            ![r].total_tokens = 0]
    /\ UNCHANGED <<session, results, extracted_skills, call, screen, destroy, start>>

\* screen_candidate: result = ...get(id=result_id); result.status = PROCESSING;
\* result.save(update_fields=['status']).  The rows of the pending query all
\* have the same overall_score, so the loop takes them in any order.
ScreenBegin(r, u) ==
    /\ task[r].pc = "loop"
    /\ u \in task[r].pending
    /\ results' = [results EXCEPT ![u].status = PROCESSING]
    /\ task' = [task EXCEPT ![r].pc = "screening",
                            ![r].pending = @ \ {u},
                            ![r].result = u,
                            ![r].sc_rank = results[u].rank,
                            ![r].sc_error = results[u].error_message]
    /\ UNCHANGED <<session, extracted_skills, call, screen, destroy, start>>

\* screen_candidate, every step succeeded: result.save(); return True.
\* The object loaded by the call goes away with its frame.
ScreenOk(r, score, tokens) ==
    /\ task[r].pc = "screening"
    /\ results' = [results EXCEPT ![task[r].result] =
                      CompletedRow(task[r].sc_rank, task[r].sc_error, score, tokens)]
    /\ task' = [task EXCEPT ![r].pc = "screened", ![r].success = TRUE,
                            ![r].sc_rank = Null, ![r].sc_error = ""]
    /\ UNCHANGED <<session, extracted_skills, call, screen, destroy, start>>

\* screen_candidate without its except branch: the exception leaves the call
\* and ends the task.
ScreenFailRaises(r, e) ==
    /\ task[r].pc = "screening"
    /\ task' = [task EXCEPT ![r].pc = "aborted"]
    /\ UNCHANGED <<session, results, extracted_skills, call, screen, destroy, start>>

\* screen_candidate, a step raised: the except branch; return False
ScreenFail(r, e) ==
    /\ task[r].pc = "screening"
    /\ results' = [results EXCEPT ![task[r].result] = FailedRow(@, e)]
    /\ task' = [task EXCEPT ![r].pc = "screened", ![r].success = FALSE,
                            ![r].sc_rank = Null, ![r].sc_error = ""]
    /\ UNCHANGED <<session, extracted_skills, call, screen, destroy, start>>

\* session.refresh_from_db()
RefreshSession(r) ==
    /\ task[r].pc = "screened"
    /\ task' = [task EXCEPT ![r].pc = "counting",
                            ![r].processed_count = session.processed_count,
                            ![r].failed_count = session.failed_count]
    /\ UNCHANGED <<session, results, extracted_skills, call, screen, destroy, start>>

\* session.processed_count += 1 ... session.save(update_fields=[counters]);
\* result.refresh_from_db(); total_tokens += result.tokens_used.
\* The loop variables and the refreshed counters are not read again before
\* the next iteration overwrites them; they are cleared here.
SaveCounts(r) ==
    LET c == CountsAfter(task[r].processed_count, task[r].failed_count,
                         task[r].success)
    IN  /\ task[r].pc = "counting"
        /\ session' = [session EXCEPT !.processed_count = c.processed_count,
                                      !.failed_count = c.failed_count]
        /\ task' = [task EXCEPT ![r].pc = "loop",
                                ![r].processed_count = 0,
                                ![r].failed_count = 0,
                                ![r].result = 0,
                                ![r].success = FALSE,
                                ![r].total_tokens =
                                    @ + results[task[r].result].tokens_used]
        /\ UNCHANGED <<results, extracted_skills, call, screen, destroy, start>>

\* _rank_session_candidates: the query, once the loop has ended
RankQuery(r) ==
    /\ task[r].pc = "loop"
    /\ task[r].pending = {}
    /\ \E q \in OrderByScoreDesc(Completed) :
          task' = [task EXCEPT ![r].pc = "ranking",
                               ![r].ranking = q,
                               ![r].rank = RankStart]
    /\ UNCHANGED <<session, results, extracted_skills, call, screen, destroy, start>>

\* _rank_session_candidates: r.rank = rank; r.save(update_fields=['rank'])
RankSave(r) ==
    /\ task[r].pc = "ranking"
    /\ task[r].ranking # <<>>
    /\ results' = [results EXCEPT ![Head(task[r].ranking)].rank = task[r].rank]
    /\ task' = [task EXCEPT ![r].ranking = Tail(@), ![r].rank = @ + 1]
    /\ UNCHANGED <<session, extracted_skills, call, screen, destroy, start>>

\* session.status = COMPLETED; session.total_tokens_used = total_tokens;
\* session.save(update_fields=['status', ..., 'total_tokens_used', ...])
MarkCompleted(r) ==
    /\ task[r].pc = "ranking"
    /\ task[r].ranking = <<>>
    /\ session' = [session EXCEPT !.status = COMPLETED,
                                  !.total_tokens_used = task[r].total_tokens]
    /\ task' = [task EXCEPT ![r].pc = "done"]
    /\ UNCHANGED <<results, extracted_skills, call, screen, destroy, start>>

\* One step of an execution that has loaded the session.
Step(r) ==
    \/ MarkProcessing(r)
    \/ EnsureAnalyzed(r)
    \/ FetchPending(r)
    \/ \E u \in Units : ScreenBegin(r, u)
    \/ \E score \in Scores, tokens \in Tokens : ScreenOk(r, score, tokens)
    \/ \E e \in Errors : ScreenFail(r, e)
    \/ RefreshSession(r)
    \/ SaveCounts(r)
    \/ RankQuery(r)
    \/ RankSave(r)
    \/ MarkCompleted(r)

\* run_screening_session_task.delay(...) delivers the first execution.  The
\* task is acks_late and takes no lock on the session, so the broker can
\* deliver the message again while an earlier execution is still running.
Start(r) ==
    /\ IF r = 1 THEN TRUE ELSE task[r - 1].pc # "idle"
    /\ GetSession(r)

\* The message is delivered again only after the earlier execution has ended.
StartSeq(r) ==
    /\ IF r = 1 THEN TRUE ELSE task[r - 1].pc = "done"
    /\ GetSession(r)

Next == \E r \in Runs : Start(r) \/ Step(r)

NextSeq == \E r \in Runs : StartSeq(r) \/ Step(r)

\* Executions of the task that may overlap.
Spec == InitOverlap /\ [][Next]_vars

\* Executions of the task one after the other.
SpecSeq == Init /\ [][NextSeq]_vars

\* A worker runs a delivered execution to its end, and the queued task is
\* delivered.
Fairness ==
    /\ WF_vars(StartSeq(1))
    /\ \A r \in Runs : WF_vars(Step(r))

FairSpecSeq == InitLive /\ [][NextSeq]_vars /\ Fairness

\* acks_late=True: the message is acknowledged when the task returns, so an
\* execution whose worker is lost part-way is never acknowledged.  It stops
\* where it was, with what it had saved; its locals are gone.
WorkerLost(r) ==
    /\ task[r].pc \notin {"idle", "done", "lost"}
    /\ task' = [task EXCEPT ![r] = [NewTask EXCEPT !.pc = "lost"]]
    /\ UNCHANGED <<session, results, extracted_skills, call, screen, destroy, start>>

\* The broker delivers the message again after the earlier execution has
\* returned or was lost.
StartRedelivered(r) ==
    /\ IF r = 1 THEN TRUE ELSE task[r - 1].pc \in {"done", "lost"}
    /\ GetSession(r)

NextRedeliver ==
    \E r \in Runs : StartRedelivered(r) \/ Step(r) \/ WorkerLost(r)

\* Executions of the task one after the other, each of which may be lost
\* before it returns.
SpecRedeliver == InitOverlap /\ [][NextRedeliver]_vars

\* ------------------------------------------------------------------ str
ascii_uppercase == "ABCDEFGHIJKLMNOPQRSTUVWXYZ"
ascii_lowercase == "abcdefghijklmnopqrstuvwxyz"

\* The lower-case letter of every upper-case letter.
lower_of ==
    [c \in {SubSeq(ascii_uppercase, i, i) : i \in 1..Len(ascii_uppercase)} |->
        LET i == CHOOSE j \in 1..Len(ascii_uppercase) :
                     SubSeq(ascii_uppercase, j, j) = c
        IN  SubSeq(ascii_lowercase, i, i)]

\* str.lower(), one character
LowerChar(c) == IF c \in DOMAIN lower_of THEN lower_of[c] ELSE c

\* str.lower()
RECURSIVE Lower(_)
Lower(t) ==
    IF t = "" THEN ""
    ELSE LowerChar(SubSeq(t, 1, 1)) \o Lower(SubSeq(t, 2, Len(t)))

\* str.strip(): the blanks at both ends removed.
RECURSIVE Strip(_)
Strip(t) ==
    IF t = "" THEN ""
    ELSE IF SubSeq(t, 1, 1) = " " THEN Strip(SubSeq(t, 2, Len(t)))
    ELSE IF SubSeq(t, Len(t), Len(t)) = " " THEN Strip(SubSeq(t, 1, Len(t) - 1))
    ELSE t

\* a in b, for two str
Contains(a, b) ==
    \E i \in 0..(Len(b) - Len(a)) : SubSeq(b, i + 1, i + Len(a)) = a

\* round(x, 2) of x = n / d, in hundredths when n is in units of 1 / (100 d):
\* to the nearest, a tie to the even one.
Round(n, d) ==
    LET q == n \div d
        r == n % d
    IN  IF 2 * r < d THEN q
        ELSE IF 2 * r > d THEN q + 1
        ELSE IF q % 2 = 0 THEN q ELSE q + 1

\* dict.get(key, default)
Get(d, key, default) == IF key \in DOMAIN d THEN d[key] ELSE default

\* Python's None where a str can stand.
None == "<None>"

\* ------------------------------------------------------------------ SkillMatcherAgent
\* A weight is in halves; a score before it is rounded is a fraction over
\* 20 * d, where d is total_weight in halves, or 1 when that is 0; the
\* skill_score returned is in hundredths of a point.

\* IMPORTANCE_WEIGHT, in halves
IMPORTANCE_WEIGHT ==
    [i \in {"must_have", "required", "preferred", "nice_to_have"} |->
        CASE i = "must_have" -> 6
          [] i = "required" -> 4
          [] i = "preferred" -> 2
          [] i = "nice_to_have" -> 1]

ALIASES ==
    [a \in {"js", "ts", "py", "ml", "ai", "nlp", "dl", "k8s", "dbs", "oop"} |->
        CASE a = "js" -> "javascript"
          [] a = "ts" -> "typescript"
          [] a = "py" -> "python"
          [] a = "ml" -> "machine learning"
          [] a = "ai" -> "artificial intelligence"
          [] a = "nlp" -> "natural language processing"
          [] a = "dl" -> "deep learning"
          [] a = "k8s" -> "kubernetes"
          [] a = "dbs" -> "databases"
          [] a = "oop" -> "object oriented"]

\* _matches: exact, alias, or substring either way when both are longer than 3
_matches(skill_name, skill_set) ==
    \/ skill_name \in skill_set
    \/ Get(ALIASES, skill_name, skill_name) \in skill_set
    \/ /\ Len(skill_name) > 3
       /\ \E cs \in skill_set :
             /\ Len(cs) > 3
             /\ Contains(skill_name, cs) \/ Contains(cs, skill_name)

\* cand_set: the lower-cased, stripped names that are not empty, and their
\* alias expansions
CandSet(candidate_skills) ==
    LET names == {Strip(Lower(n)) : n \in candidate_skills} \ {""}
    IN  names \cup {Get(ALIASES, n, n) : n \in names}

\* jname of a job skill
JName(js) == Strip(Lower(js.name))

\* weight of a job skill
Weight(js) == Get(IMPORTANCE_WEIGHT, js.importance, 2)

\* total_weight after the loop over job_skills
RECURSIVE TotalWeight(_)
TotalWeight(job_skills) ==
    IF job_skills = <<>> THEN 0
    ELSE Weight(Head(job_skills)) + TotalWeight(Tail(job_skills))

\* matched_weight after the loop over job_skills
RECURSIVE MatchedWeight(_, _)
MatchedWeight(cand_set, job_skills) ==
    IF job_skills = <<>> THEN 0
    ELSE (IF _matches(JName(Head(job_skills)), cand_set)
          THEN Weight(Head(job_skills)) ELSE 0)
             + MatchedWeight(cand_set, Tail(job_skills))

\* must_have_total after the loop over job_skills
MustHaveTotal(job_skills) ==
    Cardinality({i \in DOMAIN job_skills : job_skills[i].importance = "must_have"})

\* must_have_met after the loop over job_skills
MustHaveMet(cand_set, job_skills) ==
    Cardinality({i \in DOMAIN job_skills :
        /\ job_skills[i].importance = "must_have"
        /\ _matches(JName(job_skills[i]), cand_set)})

\* len(bonus_list): the names of cand_set that match no name of the job, the
\* first 15 of them
BonusCount(cand_set, job_skills) ==
    LET jd_names == {JName(job_skills[i]) : i \in DOMAIN job_skills}
        n == Cardinality({c \in cand_set : c # "" /\ ~_matches(c, jd_names)})
    IN  IF n > 15 THEN 15 ELSE n

Min(a, b) == IF a <= b THEN a ELSE b

\* base, over 20 * d
Base(matched_weight, total_weight) ==
    IF total_weight > 0 THEN 2000 * matched_weight ELSE 1700

\* bonus = min(5.0, len(bonus_list) * 0.5), over 20 * d
Bonus(n, d) == Min(100 * d, 10 * n * d)

\* skill_score = base + bonus, with no upper limit
Uncapped(base, bonus, d) == base + bonus

\* skill_score = min(100.0, base + bonus), over 20 * d
Capped(base, bonus, d) == Min(2000 * d, base + bonus)

\* A penalty that takes nothing off.
NoPenalty(skill_score) == skill_score

\* skill_score *= 0.7
Penalty(skill_score) == (skill_score \div 10) * 7

\* SkillMatcherAgent.score: the skill_score and must_have_skills_met returned
SkillScore(candidate_skills, job_skills) ==
    LET cand_set == CandSet(candidate_skills)
        total_weight == TotalWeight(job_skills)
        matched_weight == MatchedWeight(cand_set, job_skills)
        d == IF total_weight > 0 THEN total_weight ELSE 1
        base == Base(matched_weight, total_weight)
        bonus == Bonus(BonusCount(cand_set, job_skills), d)
        skill_score == Capped(base, bonus, d)
        all_must_met ==
            \/ MustHaveTotal(job_skills) = 0
            \/ MustHaveMet(cand_set, job_skills) = MustHaveTotal(job_skills)
    IN  [skill_score |->
            Round(5 * (IF all_must_met THEN skill_score ELSE Penalty(skill_score)), d),
         must_have_skills_met |-> all_must_met]

\* Names of resume.extracted_skills.
CandidateNames == {"", "js", "Java ", "react.js", "sql"}

\* Further candidate skills, none of which matches a job skill of the model.
ExtraSkills ==
    {"aws", "gcp", "git", "go", "c", "r", "php", "css", "xml", "vim", "tex"}

\* candidate_skills: the set of the names of the list.  The loop over the
\* list adds to a set, so neither order nor repetition is seen.
CandidateSkills ==
    (SUBSET CandidateNames) \cup {ExtraSkills, ExtraSkills \cup {"Java "}}

\* name and importance of a JobSkill row; `critical` is no SkillImportance.
JobSkillRows ==
    [name : {"javascript", "java", "react", "SQL"},
     importance : {"must_have", "required", "preferred", "nice_to_have", "critical"}]

\* A job with many must_have skills the candidate has and one the candidate
\* lacks.
LongJobList ==
    [i \in 1..LongJobSkills |-> [name |-> "java", importance |-> "must_have"]]
        \o <<[name |-> "rust", importance |-> "must_have"]>>

\* job_skills
JobSkillLists ==
    UNION {[1..n -> JobSkillRows] : n \in 0..MaxJobSkills} \cup {LongJobList}

\* skill_matcher.score(...) is called.
SkillMatcherCall ==
    \E c \in CandidateSkills, j \in JobSkillLists :
        call = [fn |-> "SkillMatcherAgent.score", returned |-> FALSE,
                args |-> [candidate_skills |-> c, job_skills |-> j]]

\* Step 2 of screen_candidate: skill_matcher.score(...)
SkillMatcherReturn ==
    /\ call.fn = "SkillMatcherAgent.score"
    /\ ~call.returned
    /\ call' = [fn |-> call.fn, returned |-> TRUE, args |-> call.args,
                ret |-> SkillScore(call.args.candidate_skills,
                                   call.args.job_skills)]
    /\ UNCHANGED <<session, results, extracted_skills, task, screen, destroy, start>>

\* ------------------------------------------------------------------ ExperienceScorerAgent
\* Years are in tenths of a year; Optional[float] is a sequence of at most one
\* value; years_score is the fraction num / den.

\* ExperienceScorerAgent.score: years_score and experience_gap, and the
\* experience_score and experience_gap_years returned; relevance is the
\* value of _relevance(experience_details, jd_text).
ExperienceScore(candidate_years, min_years_required, max_years_required, relevance) ==
    LET overqualified ==
            IF max_years_required = <<>> THEN FALSE
            ELSE IF max_years_required[1] = 0 THEN FALSE
            ELSE 2 * candidate_years > 3 * max_years_required[1]
        years_score ==
            IF min_years_required <= 0 THEN [num |-> 100, den |-> 1]
            ELSE IF candidate_years >= min_years_required
            THEN [num |-> IF overqualified THEN 85 ELSE 100, den |-> 1]
            ELSE [num |-> IF candidate_years > 0 THEN 100 * candidate_years ELSE 0,
                  den |-> min_years_required]
        experience_gap ==
            IF min_years_required <= 0 THEN 0
            ELSE IF candidate_years >= min_years_required THEN 0
            ELSE min_years_required - candidate_years
    IN  [years_score |-> years_score,
         experience_gap |-> experience_gap,
         experience_score |->
             Round(60 * years_score.num + 40 * relevance * years_score.den,
                   years_score.den),
         experience_gap_years |-> Round(experience_gap, 1)]

\* resume.total_experience_years or 0
CandidateYears == {-10, 0, 30, 50, 75, 76, 100}

\* job.min_experience_years or 0
MinYears == {-10, 0, 20, 50}

\* job.max_experience_years, a nullable FloatField
MaxYears == {<<>>, <<0>>, <<50>>, <<80>>}

\* Values of _relevance.
Relevances == {0, 50, 100}

\* exp_scorer.score(...) is called.
ExperienceScorerCall ==
    \E c \in CandidateYears, mn \in MinYears, mx \in MaxYears, rel \in Relevances :
        call = [fn |-> "ExperienceScorerAgent.score", returned |-> FALSE,
                args |-> [candidate_years |-> c, min_years_required |-> mn,
                          max_years_required |-> mx, relevance |-> rel]]

\* Step 3 of screen_candidate: exp_scorer.score(...)
ExperienceScorerReturn ==
    /\ call.fn = "ExperienceScorerAgent.score"
    /\ ~call.returned
    /\ call' = [fn |-> call.fn, returned |-> TRUE, args |-> call.args,
                ret |-> ExperienceScore(call.args.candidate_years,
                                        call.args.min_years_required,
                                        call.args.max_years_required,
                                        call.args.relevance)]
    /\ UNCHANGED <<session, results, extracted_skills, task, screen, destroy, start>>

\* ------------------------------------------------------------------ EducationScorerAgent
LEVEL_ORDER ==
    [l \in {"high_school", "associate", "bachelor", "mba", "master", "phd",
            "other", ""} |->
        CASE l = "high_school" -> 1
          [] l = "associate" -> 2
          [] l = "bachelor" -> 3
          [] l = "mba" -> 4
          [] l = "master" -> 4
          [] l = "phd" -> 5
          [] l = "other" -> 2
          [] l = "" -> 0]

\* The items of KEYWORD_MAP in the order of the dict.
KEYWORD_MAP ==
    << <<"high school", "high_school">>,
       <<"associate", "associate">>,
       <<"bachelor", "bachelor">>,
       <<"bachelor's", "bachelor">>,
       <<"master", "master">>,
       <<"master's", "master">>,
       <<"mba", "mba">>,
       <<"phd", "phd">>,
       <<"doctorate", "phd">>,
       <<"any", None>>,
       <<"", None>> >>

\* _parse_req: the level of the first keyword of KEYWORD_MAP that is not
\* empty and occurs in the lower-cased, stripped text; None when there is none.
_parse_req(req) ==
    LET lower == Strip(Lower(req))
        hits == {i \in DOMAIN KEYWORD_MAP :
                    KEYWORD_MAP[i][1] # "" /\ Contains(KEYWORD_MAP[i][1], lower)}
    IN  IF hits = {} THEN None
        ELSE KEYWORD_MAP[CHOOSE i \in hits : \A j \in hits : i <= j][2]

\* EducationScorerAgent.score
EducationScore(candidate_education, jd_education_req) ==
    LET req_level == _parse_req(jd_education_req)
        cand_lvl == Get(LEVEL_ORDER, candidate_education, 0)
        req_lvl == Get(LEVEL_ORDER, req_level, 3)
    IN  IF req_level = None
        THEN [education_score |-> 90, education_match |-> TRUE]
        ELSE IF cand_lvl >= req_lvl
        THEN [education_score |-> 100, education_match |-> TRUE]
        ELSE IF cand_lvl = req_lvl - 1
        THEN [education_score |-> 70, education_match |-> FALSE]
        ELSE [education_score |-> 40, education_match |-> FALSE]

\* resume.highest_education or '': the EducationLevel choices, the empty
\* level, and texts that are no choice.
CandidateLevels ==
    {"", "high_school", "associate", "bachelor", "master", "mba", "phd",
     "other", "diploma", "Bachelor"}

\* jd_education_req: job.education_requirement, free text of the job form,
\* or the empty text.
RequirementTexts ==
    {"", "any", "Any", "none", "company degree",
     "high_school", "high school", "High School diploma",
     "associate", "bachelor", "Bachelor's degree", "master", "mba",
     " PhD ", "phd", "doctorate", "master or phd", "phd or bachelor"}

\* edu_scorer.score(...) is called.
EducationScorerCall ==
    \E c \in CandidateLevels, q \in RequirementTexts :
        call = [fn |-> "EducationScorerAgent.score", returned |-> FALSE,
                args |-> [candidate_education |-> c, jd_education_req |-> q]]

\* Step 4 of screen_candidate: edu_agent.score(...)
EducationScorerReturn ==
    /\ call.fn = "EducationScorerAgent.score"
    /\ ~call.returned
    /\ call' = [fn |-> call.fn, returned |-> TRUE, args |-> call.args,
                ret |-> EducationScore(call.args.candidate_education,
                                       call.args.jd_education_req)]
    /\ UNCHANGED <<session, results, extracted_skills, task, screen, destroy, start>>

\* ------------------------------------------------------------------ decision
\* The key is absent from the dict.
Missing == "<missing>"

\* CandidateDecision
CandidateDecision == {"shortlisted", "interview", "maybe", "hold", "rejected"}

DECISION_MAP ==
    [l \in {"shortlisted", "shortlist", "interview", "maybe", "hold", "reject",
            "rejected"} |->
        CASE l = "shortlisted" -> "shortlisted"
          [] l = "shortlist" -> "shortlisted"
          [] l = "interview" -> "interview"
          [] l = "maybe" -> "maybe"
          [] l = "hold" -> "hold"
          [] l = "reject" -> "rejected"
          [] l = "rejected" -> "rejected"]

\* The label stored as it came, lower-cased.
AiDecisionNoDefault(decision) ==
    Lower(IF decision = Missing THEN "maybe" ELSE decision)

\* raw_decision = expl_data.get('decision', 'maybe').lower()
\* ai_decision  = DECISION_MAP.get(raw_decision, 'maybe')
AiDecision(decision) ==
    LET raw_decision == Lower(IF decision = Missing THEN "maybe" ELSE decision)
    IN  Get(DECISION_MAP, raw_decision, "maybe")

\* The 'decision' of the JSON object the explanation call returned: the three
\* labels the prompt asks for, other labels, other spellings, or no such key.
RawDecisions ==
    {"shortlisted", "maybe", "rejected", "shortlist", "reject", "interview",
     "hold", "Shortlisted", "REJECTED", "Hold", "strong_yes", "", " maybe",
     Missing}

\* The explanation call has returned its JSON object.
DecisionCall ==
    \E d \in RawDecisions :
        call = [fn |-> "DECISION_MAP.get", returned |-> FALSE,
                args |-> [decision |-> d]]

\* Step 6 of screen_candidate, after the explanation: the decision to store.
DecisionReturn ==
    /\ call.fn = "DECISION_MAP.get"
    /\ ~call.returned
    /\ call' = [fn |-> call.fn, returned |-> TRUE, args |-> call.args,
                ret |-> [ai_decision |-> AiDecision(call.args.decision)]]
    /\ UNCHANGED <<session, results, extracted_skills, task, screen, destroy, start>>

\* ------------------------------------------------------------------ overall score
\* The weights of a job are in thousandths, a similarity in hundredths, a
\* component score in points, and a stored score in hundredths of a point.

\* JobDescriptionWriteSerializer.validate: abs(total - 1.0) > 0.01 is refused.
\* The weight fields are FloatField with no validator of their own.
WeightsValid(w) ==
    LET total == w.skills + w.experience + w.education + w.fit
    IN  ~((IF total >= 1000 THEN total - 1000 ELSE 1000 - total) > 10)

\* Values of a weight field.
WeightValues == {-500, 0, 150, 200, 300, 350, 355, 500, 1000, 1500}

\* job.score_weights of the jobs the serializer lets through.  A total at
\* exactly 0.01 from 1.0 passes or not with the rounding of the float sum;
\* such weights are left out.
JobWeights ==
    {w \in [skills : WeightValues, experience : WeightValues,
            education : WeightValues, fit : WeightValues] :
        /\ WeightsValid(w)
        /\ w.skills + w.experience + w.education + w.fit \notin {990, 1010}}

\* skill_score, experience_score, education_score
ComponentScores == {0, 50, 100}

\* semantic_sim, in hundredths
Similarities == {0, 50, 100}

\* fit_score, in hundredths of a point
FitScore(semantic_sim, skill_score, exp_score, edu_score) ==
    60 * semantic_sim + 4 * (3 * skill_score + 5 * exp_score + 2 * edu_score)

\* overall_score, in units of 1 / 100000 of a point
OverallScore(w, semantic_sim, skill_score, exp_score, edu_score) ==
    100 * (skill_score * w.skills + exp_score * w.experience
              + edu_score * w.education)
        + FitScore(semantic_sim, skill_score, exp_score, edu_score) * w.fit

\* The component scores and the similarity are in hand.
OverallScoreCall ==
    \E w \in JobWeights, m \in Similarities,
       s \in ComponentScores, e \in ComponentScores, d \in ComponentScores :
        call = [fn |-> "overall_score", returned |-> FALSE,
                args |-> [w |-> w, semantic_sim |-> m, skill_score |-> s,
                          exp_score |-> e, edu_score |-> d]]

\* Step 5 of screen_candidate and result.overall_score = round(overall_score, 2)
OverallScoreReturn ==
    /\ call.fn = "overall_score"
    /\ ~call.returned
    /\ call' = [fn |-> call.fn, returned |-> TRUE, args |-> call.args,
                ret |-> [overall_score |->
                    Round(OverallScore(call.args.w, call.args.semantic_sim,
                                       call.args.skill_score, call.args.exp_score,
                                       call.args.edu_score), 1000)]]
    /\ UNCHANGED <<session, results, extracted_skills, task, screen, destroy, start>>

\* ------------------------------------------------------------------ scoring
\* The scoring calls of screen_candidate, each on every input of the model.
InitScoring ==
    /\ session = NewSession(1)
    /\ results = [u \in 1..1 |-> NewResult]
    /\ extracted_skills = TRUE
    /\ task = [r \in Runs |-> NewTask]
    /\ screen = NoScreen
    /\ destroy = NoDestroy
    /\ start = NoStart
    /\ \/ SkillMatcherCall
       \/ ExperienceScorerCall
       \/ EducationScorerCall
       \/ OverallScoreCall
       \/ DecisionCall

NextScoring ==
    \/ SkillMatcherReturn
    \/ ExperienceScorerReturn
    \/ EducationScorerReturn
    \/ DecisionReturn
    \/ OverallScoreReturn

SpecScoring == InitScoring /\ [][NextScoring]_vars

\* ------------------------------------------------------------------ screen_candidate
\* The steps in the order "SkillMatcher, ExperienceScorer, EducationScorer,
\* similarity, explanation".
STEPS_ScorersFirst ==
    <<"skill_matcher", "exp_scorer", "edu_scorer", "resume_similarity",
      "explanation">>

\* The calls of screen_candidate, in the order of the code: Step 1
\* vector_store.resume_similarity, Step 2 skill_matcher.score, Step 3
\* exp_scorer.score, Step 4 edu_scorer.score, Step 6 explanation.generate.
\* Step 5 is arithmetic on their results.
STEPS ==
    <<"resume_similarity", "skill_matcher", "exp_scorer", "edu_scorer",
      "explanation">>

\* ScreeningResult with the field defaults: the score fields, a skill list,
\* the decision, the rank and the pipeline fields.
FreshRow ==
    [status |-> PENDING, overall_score |-> 0, skill_score |-> 0,
     matched_skills |-> <<>>, ai_decision |-> "", rank |-> Null,
     error_message |-> "", tokens_used |-> 0]

\* A row that an earlier call of screen_candidate completed; an execution of
\* the task that overlaps another one dispatches such a row.
ScreenedRows ==
    {[status |-> COMPLETED, overall_score |-> score, skill_score |-> score,
      matched_skills |-> <<"sql">>, ai_decision |-> decision, rank |-> rank,
      error_message |-> "", tokens_used |-> 1] :
        score \in Scores, decision \in {"shortlisted", "rejected"},
        rank \in {Null, RankStart}}

\* What resume.raw_text was not.
NOT_PARSED == "has not been parsed yet"

\* The call screen_candidate(result_id) is about to start.  resume.raw_text is
\* empty or not: parse_resume stores a non-empty text, and the admin form
\* saves a resume with any status and the read-only raw_text left blank.
InitScreen ==
    /\ session = NewSession(1)
    /\ results = [u \in 1..1 |-> NewResult]
    /\ extracted_skills = TRUE
    /\ task = [r \in Runs |-> NewTask]
    /\ call = NoCall
    /\ destroy = NoDestroy
    /\ start = NoStart
    /\ \E raw_text \in BOOLEAN, row \in {FreshRow} \cup ScreenedRows :
          screen = [pc |-> "idle", raw_text |-> raw_text, row |-> row,
                    before |-> row, result |-> row, invoked |-> <<>>,
                    exc |-> "", ret |-> <<>>]

\* result = ScreeningResult.objects...get(id=result_id);
\* result.status = PROCESSING; result.save(update_fields=['status'])
LoadResult ==
    /\ screen.pc = "idle"
    /\ screen' = [screen EXCEPT !.pc = "begun",
                                !.result = [screen.row EXCEPT !.status = PROCESSING],
                                !.row = [screen.row EXCEPT !.status = PROCESSING]]
    /\ UNCHANGED <<session, results, extracted_skills, task, call, destroy, start>>

\* if not resume.raw_text: raise ValueError(...)
CheckRawText ==
    /\ screen.pc = "begun"
    /\ screen' = IF screen.raw_text
                 THEN [screen EXCEPT !.pc = "steps"]
                 ELSE [screen EXCEPT !.pc = "raised", !.exc = NOT_PARSED]
    /\ UNCHANGED <<session, results, extracted_skills, task, call, destroy, start>>

\* The next call of STEPS is made; it returns, or it raises and control goes
\* to the except branch.
InvokeStep(ok) ==
    /\ screen.pc = "steps"
    /\ LET step == STEPS[Len(screen.invoked) + 1]
       IN  screen' = [screen EXCEPT
               !.invoked = Append(@, step),
               !.pc = IF ~ok THEN "raised"
                      ELSE IF Len(screen.invoked) + 1 = Len(STEPS) THEN "save"
                      ELSE "steps",
               !.exc = IF ok THEN "" ELSE step]
    /\ UNCHANGED <<session, results, extracted_skills, task, call, destroy, start>>

\* Step 7: the scores, the skill lists, the decision and the pipeline fields
\* are set on the loaded object; result.save() writes all its fields; return
\* True.
SaveResult(score, skill_score, decision, tokens) ==
    /\ screen.pc = "save"
    /\ screen' = [screen EXCEPT
           !.pc = "returned",
           !.result = [@ EXCEPT !.status = COMPLETED,
                                !.overall_score = score,
                                !.skill_score = skill_score,
                                !.matched_skills = <<"sql">>,
                                !.ai_decision = decision,
                                !.tokens_used = tokens],
           !.row = [screen.result EXCEPT !.status = COMPLETED,
                                         !.overall_score = score,
                                         !.skill_score = skill_score,
                                         !.matched_skills = <<"sql">>,
                                         !.ai_decision = decision,
                                         !.tokens_used = tokens],
           !.ret = <<TRUE>>]
    /\ UNCHANGED <<session, results, extracted_skills, task, call, destroy, start>>

\* except Exception as exc: the row is read again, status and error_message
\* are saved; return False.
ExceptBranch ==
    /\ screen.pc = "raised"
    /\ screen' = [screen EXCEPT !.pc = "returned",
                                !.row = FailedRow(@, screen.exc),
                                !.ret = <<FALSE>>]
    /\ UNCHANGED <<session, results, extracted_skills, task, call, destroy, start>>

NextScreen ==
    \/ LoadResult
    \/ CheckRawText
    \/ \E ok \in BOOLEAN : InvokeStep(ok)
    \/ \E score \in Scores, skill_score \in Scores,
          decision \in {"shortlisted", "rejected"}, tokens \in Tokens :
          SaveResult(score, skill_score, decision, tokens)
    \/ ExceptBranch

\* One call of screen_candidate, step by step.
SpecScreen == InitScreen /\ [][NextScreen]_vars

\* ------------------------------------------------------------------ ScreeningSessionDetailView.destroy
\* A DELETE request on the session arrives while the task is queued or
\* running.
InitDestroy ==
    /\ \E n \in 1..MaxOverlapUnits :
          /\ session = NewSession(n)
          /\ results = [u \in 1..n |-> NewResult]
    /\ extracted_skills \in BOOLEAN
    /\ task = [r \in Runs |-> NewTask]
    /\ call = NoCall
    /\ screen = NoScreen
    /\ destroy = [pc |-> "idle", status |-> ""]
    /\ start = NoStart

\* The session row and, by on_delete=CASCADE, its result rows exist.
SessionExists == destroy.pc # "deleted"

\* session = self.get_object()
DestroyGetObject ==
    /\ destroy.pc = "idle"
    /\ destroy' = [pc |-> "loaded", status |-> session.status]
    /\ UNCHANGED <<session, results, extracted_skills, task, call, screen, start>>

\* if session.status == ScreeningStatus.PROCESSING: return Response(409)
DestroyRefused ==
    /\ destroy.pc = "loaded"
    /\ destroy.status = PROCESSING
    /\ destroy' = [destroy EXCEPT !.pc = "refused"]
    /\ UNCHANGED <<session, results, extracted_skills, task, call, screen, start>>

\* session.delete(); return Response(200).  The status tested is the one of
\* the object loaded by get_object.
DestroyDelete ==
    /\ destroy.pc = "loaded"
    /\ destroy.status # PROCESSING
    /\ destroy' = [destroy EXCEPT !.pc = "deleted"]
    /\ results' = <<>>
    /\ UNCHANGED <<session, extracted_skills, task, call, screen, start>>

\* The rows are gone: the next query of a running execution on the session
\* or on a result row raises (DoesNotExist, or DatabaseError from
\* save(update_fields=...)) and the execution ends there; an execution
\* delivered afterwards returns at ScreeningSession.DoesNotExist.
TaskFindsNoSession(r) ==
    /\ ~SessionExists
    /\ task[r].pc \notin {"done", "aborted"}
    /\ IF r = 1 THEN TRUE ELSE task[r - 1].pc \in {"done", "aborted"}
    /\ task' = [task EXCEPT ![r] = [NewTask EXCEPT !.pc = "aborted"]]
    /\ UNCHANGED <<session, results, extracted_skills, call, screen, destroy, start>>

NextDestroy ==
    \/ SessionExists /\ \E r \in Runs : StartSeq(r) \/ Step(r)
    \/ \E r \in Runs : TaskFindsNoSession(r)
    \/ DestroyGetObject
    \/ DestroyRefused
    \/ DestroyDelete

\* One DELETE request on the session, interleaved with the executions of the
\* task.
SpecDestroy == InitDestroy /\ [][NextDestroy]_vars

\* ------------------------------------------------------------------ start_screening_view
\* ResumeStatus
ResumeStatus == {"uploaded", "parsing", "parsed", "indexed", "failed"}

\* The Resume tables: every row has a status and is visible to the request
\* (its company is the user's and is_active is set) or not.
ResumeTables ==
    UNION {[1..n -> [status : ResumeStatus, is_active : BOOLEAN]] :
               n \in 1..MaxResumes}

\* resume_ids of the request: min_length=1; an id can name no row, and can
\* occur twice.
ResumeIdLists(table) ==
    UNION {[1..n -> 1..(Len(table) + 1)] : n \in 1..MaxResumeIds}

\* No session has been created yet.
NoSession == [status |-> "none", total_resumes |-> 0]

InitStart ==
    /\ session = NoSession
    /\ results = <<>>
    /\ extracted_skills \in BOOLEAN
    /\ task = [r \in Runs |-> NewTask]
    /\ call = NoCall
    /\ screen = NoScreen
    /\ destroy = NoDestroy
    /\ \E table \in ResumeTables :
          \E ids \in ResumeIdLists(table) :
              start = [pc |-> "request", table |-> table, resume_ids |-> ids,
                       response |-> 0, resume_of |-> <<>>]

\* Resume.objects.filter(id__in=ids, company=..., is_active=True)
Resumes(table, ids) ==
    {i \in DOMAIN table : table[i].is_active /\ \E k \in DOMAIN ids : ids[k] = i}

\* A validation that excludes no resume for its status.
NotReadyNever(table, ids) == {}

\* resumes.exclude(status__in=[ResumeStatus.PARSED, ResumeStatus.INDEXED])
NotReady(table, ids) ==
    {i \in Resumes(table, ids) : table[i].status \notin {"parsed", "indexed"}}

\* StartScreeningSerializer.validate_resume_ids raises no ValidationError.
ResumeIdsValid(table, ids) ==
    /\ Cardinality(Resumes(table, ids)) = Len(ids)
    /\ NotReady(table, ids) = {}

HTTP_202_ACCEPTED == 202
HTTP_400_BAD_REQUEST == 400

\* if not ser.is_valid(): return Response(ser.errors, 400)
StartScreeningRejected ==
    /\ start.pc = "request"
    /\ ~ResumeIdsValid(start.table, start.resume_ids)
    /\ start' = [start EXCEPT !.pc = "responded",
                              !.response = HTTP_400_BAD_REQUEST]
    /\ UNCHANGED <<session, results, extracted_skills, task, call, screen,
                   destroy>>

\* The request is valid: the session is created with total_resumes =
\* resumes.count(), one ScreeningResult per row of the resumes queryset is
\* bulk-created (the queryset has no order_by), the task is queued, 202.
StartScreeningAccepted ==
    /\ start.pc = "request"
    /\ ResumeIdsValid(start.table, start.resume_ids)
    /\ LET resumes == Resumes(start.table, start.resume_ids)
           count == Cardinality(resumes)
       IN  /\ session' = NewSession(count)
           /\ results' = [u \in 1..count |-> NewResult]
           /\ \E q \in [1..count -> resumes] :
                 /\ \A i, j \in 1..count : i # j => q[i] # q[j]
                 /\ start' = [start EXCEPT !.pc = "responded",
                                           !.response = HTTP_202_ACCEPTED,
                                           !.resume_of = q]
    /\ UNCHANGED <<extracted_skills, task, call, screen, destroy>>

NextStart ==
    \/ StartScreeningRejected
    \/ StartScreeningAccepted

\* One request of start_screening_view.
SpecStart == InitStart /\ [][NextStart]_vars

\* ------------------------------------------------------------------ properties
Terminal == {COMPLETED, FAILED}

AllTerminal == \A u \in Units : results[u].status \in Terminal

\* An execution has ended and no execution is writing ranks.
RankingOver ==
    /\ \E r \in Runs : task[r].pc = "done"
    /\ \A r \in Runs : task[r].pc # "ranking"

\* The completed rows carry the ranks 1..K, each once, in an order of
\* descending score.
RanksDense ==
    /\ {results[u].rank : u \in Completed} = 1..Cardinality(Completed)
    /\ \A u, v \in Completed :
          results[u].rank < results[v].rank
              => results[u].overall_score >= results[v].overall_score

\* The execution has dispatched a unit and has not saved the counters for it.
Dispatched(r) == task[r].pc \in {"screening", "screened", "counting"}

\* C1: an execution that has loaded the session ends with the session
\* completed, whichever units fail: no failure stops the loop.
C1_SessionCompletes ==
    \A r \in Runs :
        (task[r].pc = "loaded") ~> (task[r].pc = "done" /\ session.status = COMPLETED)

C1_Witness ==
    /\ session.status = COMPLETED
    /\ task[1].pc = "done"
    /\ \E u, v \in Units :
          /\ results[u].status = FAILED /\ results[u].error_message = "similarity"
          /\ results[v].status = FAILED /\ results[v].error_message = "explanation"

C4_RanksDenseAfterRanking == RankingOver => RanksDense

C4_Witness ==
    /\ RankingOver
    /\ Cardinality(Completed) = 3
    /\ \E u, v \in Completed : results[u].overall_score # results[v].overall_score

\* C5: after ranking, of two completed units with equal overall_score the one
\* created earlier has the smaller rank.
C5_TieBreakByCreation ==
    RankingOver =>
        \A u, v \in Completed :
            (u < v /\ results[u].overall_score = results[v].overall_score)
                => results[u].rank < results[v].rank

\* C6: in every state, a unit that is not completed has a null rank.
C6_RankOnlyOnCompleted ==
    \A u \in Units : results[u].status # COMPLETED => results[u].rank = Null

\* C7: once a ranking has ended and the ranks are in place, ranking again with
\* no newly completed unit leaves every rank as it was.
C7_RerankKeepsRanks ==
    [][((\E r \in Runs : task[r].pc = "done") /\ RanksDense)
          => \A u \in Units : results'[u].rank = results[u].rank]_vars

\* C8: ranking is performed once per session, also when the task is executed
\* a second time.
C8_RankedOnce ==
    Cardinality({r \in Runs : task[r].pc \in {"ranking", "done"}}) <= 1

C10_TerminalIsFinal ==
    [][\A u \in Units :
          results[u].status \in Terminal
              => results'[u].status = results[u].status]_vars

\* C11: a unit is dispatched to screen_candidate only while it is pending,
\* hence at most once, and no two executions of screen_candidate hold the same
\* unit at the same time, also when executions of the task overlap.
C11_DispatchedOnce ==
    /\ [](\A r, s \in Runs :
            (r # s /\ task[r].pc = "screening" /\ task[s].pc = "screening")
                => task[r].result # task[s].result)
    /\ [][\A r \in Runs :
            (task[r].pc = "loop" /\ task'[r].pc = "screening")
                => results[task'[r].result].status = PENDING]_vars

\* C12: every recorded completion raises processed_count by exactly one and
\* failed_count by exactly one when the unit failed and by nothing otherwise,
\* also when executions record completions at the same time; so k recorded
\* completions with f failures raise the counters by k and f.
C12_NoLostIncrement ==
    [][\A r \in Runs :
          (task[r].pc = "counting" /\ task'[r].pc = "loop")
              => /\ session'.processed_count = session.processed_count + 1
                 /\ session'.failed_count =
                        session.failed_count + (IF task[r].success THEN 0 ELSE 1)]_vars

\* C13: the session status only moves pending -> processing -> completed; a
\* completed session stays completed, also when the task is executed again.
C13_StatusForward ==
    [][/\ session.status = COMPLETED => session'.status = COMPLETED
       /\ session.status = PROCESSING => session'.status # PENDING]_vars

\* C15: in every reachable state, every failed unit has a non-empty
\* error_message, the text of an error screen_candidate caught.
C15_FailedHasError ==
    \A u \in Units :
        results[u].status = FAILED
            => results[u].error_message # "" /\ results[u].error_message \in Errors

C15_Witness ==
    /\ session.failed_count >= 1
    /\ \E u \in Units :
          results[u].status = FAILED /\ results[u].error_message = "explanation"

\* The levels a requirement text names: those whose keyword of KEYWORD_MAP or
\* whose own name occurs in the text.
LevelsNamed(req) ==
    {KEYWORD_MAP[i][2] : i \in {j \in DOMAIN KEYWORD_MAP :
        /\ KEYWORD_MAP[j][2] # None
        /\ \/ Contains(KEYWORD_MAP[j][1], Strip(Lower(req)))
           \/ Contains(KEYWORD_MAP[j][2], Strip(Lower(req)))}}

\* C19: for a requirement text that names one level and a candidate level of
\* LEVEL_ORDER, the score is 100 with a match when the candidate's ordinal is
\* at least the required one, 70 without a match when it is one below, 40
\* without a match when it is two or more below; for a requirement text that
\* is `any` or names no level the score is 90 with a match.
C19_EducationScore ==
    (call.fn = "EducationScorerAgent.score" /\ call.returned
        /\ call.args.candidate_education \in DOMAIN LEVEL_ORDER) =>
        LET named == LevelsNamed(call.args.jd_education_req)
            cand == LEVEL_ORDER[call.args.candidate_education]
        IN  /\ named = {} =>
                call.ret = [education_score |-> 90, education_match |-> TRUE]
            /\ \A l \in named :
                Cardinality(named) = 1 =>
                    call.ret =
                        IF cand >= LEVEL_ORDER[l]
                        THEN [education_score |-> 100, education_match |-> TRUE]
                        ELSE IF cand = LEVEL_ORDER[l] - 1
                        THEN [education_score |-> 70, education_match |-> FALSE]
                        ELSE [education_score |-> 40, education_match |-> FALSE]

\* C20: a candidate level that is no key of LEVEL_ORDER is scored as the level
\* `other` (ordinal 2) is.
C20_UnrecognisedIsOther ==
    (call.fn = "EducationScorerAgent.score" /\ call.returned
        /\ call.args.candidate_education \notin DOMAIN LEVEL_ORDER) =>
        call.ret = EducationScore("other", call.args.jd_education_req)

\* C16 as stated: the decision stored is one of shortlisted, maybe, rejected,
\* and a label that is not one of the three is stored as maybe.
C16_DecisionOneOfThree ==
    (call.fn = "DECISION_MAP.get" /\ call.returned) =>
        /\ call.ret.ai_decision \in {"shortlisted", "maybe", "rejected"}
        /\ call.args.decision \notin {"shortlisted", "maybe", "rejected"}
              => call.ret.ai_decision = "maybe"

\* C16 as amended: the decision stored is one of the five values of
\* CandidateDecision; the lower-cased label is stored as shortlisted for
\* shortlisted and shortlist, as rejected for rejected and reject, as itself
\* for interview, maybe and hold, and as maybe for every other label and when
\* there is no label.
C16_DecisionInEnum ==
    (call.fn = "DECISION_MAP.get" /\ call.returned) =>
        LET label == IF call.args.decision = Missing THEN "maybe"
                     ELSE Lower(call.args.decision)
        IN  /\ call.ret.ai_decision \in CandidateDecision
            /\ call.ret.ai_decision =
                  IF label \in {"shortlisted", "shortlist"} THEN "shortlisted"
                  ELSE IF label \in {"rejected", "reject"} THEN "rejected"
                  ELSE IF label \in {"interview", "hold"} THEN label
                  ELSE "maybe"

C16_Witness ==
    /\ call.fn = "DECISION_MAP.get"
    /\ call.returned
    /\ call.args.decision = "strong_yes"
    /\ call.ret.ai_decision = "maybe"

\* C14: the overall_score stored on a completed unit is in [0, 100], for
\* every job whose weights passed the validation and all component scores in
\* [0, 100] and similarities in [0, 1].
C14_OverallInRange ==
    (call.fn = "overall_score" /\ call.returned) =>
        (0 <= call.ret.overall_score /\ call.ret.overall_score <= 10000)

\* C17: for every candidate skill list and every job skill list, empty
\* lists, unknown importances and any number of bonus skills included,
\* SkillMatcherAgent.score returns 0 <= skill_score <= 100.
C17_SkillScoreInRange ==
    (call.fn = "SkillMatcherAgent.score" /\ call.returned) =>
        (0 <= call.ret.skill_score /\ call.ret.skill_score <= 10000)

C17_Witness ==
    /\ call.fn = "SkillMatcherAgent.score"
    /\ call.returned
    /\ call.args.candidate_skills = ExtraSkills \cup {"Java "}
    /\ Len(call.args.job_skills) = 2
    /\ \A i \in DOMAIN call.args.job_skills :
          /\ call.args.job_skills[i].importance = "critical"
          /\ call.args.job_skills[i].name = "java"
    /\ call.ret.skill_score = 10000

C21_YearsComponent ==
    (call.fn = "ExperienceScorerAgent.score" /\ call.returned) =>
        LET c == call.args.candidate_years
            mn == call.args.min_years_required
            mx == call.args.max_years_required
            years == call.ret.years_score
            gap == call.ret.experience_gap
        IN  IF mn <= 0 THEN years.num = 100 * years.den /\ gap = 0
            ELSE IF c >= mn
            THEN /\ gap = 0
                 /\ years.num =
                       (IF mx # <<>> /\ 2 * c > 3 * mx[1] THEN 85 ELSE 100) * years.den
            ELSE /\ gap = mn - c
                 /\ years.num * mn = (IF c > 0 THEN 100 * c ELSE 0) * years.den

\* C22: no unit is dispatched to screen_candidate unless the job has its
\* extracted skills, from before the run or from an analyze_job that
\* succeeded.
C22_AnalysisBeforeDispatch ==
    (\E u \in Units : results[u].status # PENDING) => extracted_skills

\* The sum of tokens_used over the units 1..n.
RECURSIVE SumTokens(_)
SumTokens(n) == IF n = 0 THEN 0 ELSE results[n].tokens_used + SumTokens(n - 1)

\* C27: whenever the session is completed, total_tokens_used is the sum of
\* tokens_used over its units, also after the task has been executed again.
C27_TokensAreSum ==
    session.status = COMPLETED
        => session.total_tokens_used = SumTokens(Cardinality(Units))

\* C30: in every reachable state failed_count <= processed_count <=
\* total_resumes, for executions one after the other or overlapping.
C30_CountsOrdered ==
    /\ session.failed_count <= session.processed_count
    /\ session.processed_count <= session.total_resumes

\* C26: an execution of the task that follows an earlier one dispatches only
\* units that are pending, and no step changes the status, the score or the
\* error message of a unit that is failed or completed.
C26_RerunKeepsTerminal ==
    [][\A u \in Units :
          /\ results[u].status \in {COMPLETED, FAILED}
                => /\ results'[u].status = results[u].status
                   /\ results'[u].overall_score = results[u].overall_score
                   /\ results'[u].error_message = results[u].error_message
          /\ results'[u].status = PROCESSING /\ results[u].status # PROCESSING
                => results[u].status = PENDING]_vars

\* The second execution has dispatched a unit while a unit that the first
\* execution left failed is in the session.
C26_Witness ==
    /\ task[1].pc = "lost"
    /\ task[2].pc = "screening"
    /\ \E u \in Units : results[u].status = FAILED

\* C23 as stated: within one call the steps are invoked in the order
\* SkillMatcher, ExperienceScorer, EducationScorer, similarity lookup,
\* explanation call.
C23_ScorersBeforeSimilarity ==
    LET stated == <<"skill_matcher", "exp_scorer", "edu_scorer",
                    "resume_similarity", "explanation">>
    IN  /\ Len(screen.invoked) <= Len(stated)
        /\ \A i \in 1..Len(screen.invoked) : screen.invoked[i] = stated[i]

\* C23: within one call the steps are invoked in the order similarity lookup,
\* SkillMatcher, ExperienceScorer, EducationScorer, explanation call; the
\* explanation call is never invoked before the other four.
C23_StepOrder ==
    LET order == <<"resume_similarity", "skill_matcher", "exp_scorer",
                   "edu_scorer", "explanation">>
    IN  /\ Len(screen.invoked) <= Len(order)
        /\ \A i \in 1..Len(screen.invoked) : screen.invoked[i] = order[i]

\* A call has invoked all five steps.
C23_Witness ==
    /\ screen.pc = "save"
    /\ Len(screen.invoked) = Len(STEPS)

\* C24: when a step of screen_candidate raises, no later step is invoked; once
\* the call has returned the unit is failed, its score fields, skill list,
\* decision and rank are what they were before the call, and the call
\* returned False.
C24_FailureShortCircuits ==
    screen.exc \in {"resume_similarity", "skill_matcher", "exp_scorer",
                    "edu_scorer", "explanation"}
        => /\ screen.invoked[Len(screen.invoked)] = screen.exc
           /\ screen.pc \in {"raised", "returned"}
           /\ screen.pc = "returned"
                 => /\ screen.row.status = FAILED
                    /\ screen.row.overall_score = screen.before.overall_score
                    /\ screen.row.skill_score = screen.before.skill_score
                    /\ screen.row.matched_skills = screen.before.matched_skills
                    /\ screen.row.ai_decision = screen.before.ai_decision
                    /\ screen.row.rank = screen.before.rank
                    /\ screen.ret = <<FALSE>>

\* The skill matcher raised in a call on a row that had a score and a rank,
\* and the call has returned.
C24_Witness ==
    /\ screen.pc = "returned"
    /\ screen.exc = "skill_matcher"
    /\ screen.before.overall_score = 90
    /\ screen.before.rank = RankStart

\* C25: a unit is in processing only if its candidate has extracted text; a
\* unit whose candidate has none never enters processing.
C25_ProcessingNeedsText ==
    screen.row.status = PROCESSING => screen.raw_text

\* C28: the session is never deleted while an execution of the task has a
\* unit dispatched: the session and its units exist until the task finishes.
C28_NoDeleteWhileRunning ==
    \A r \in Runs : Dispatched(r) => SessionExists

====
